---- MODULE Spec2Model ----
(***************************************************************************)
(* A model of data_retrieval/getaq.py: one run of main(), from the         *)
(* resolution of the API key to the line-delimited JSON printed on         *)
(* standard output, with parse_sensor_record and iso_date as operators.    *)
(*                                                                         *)
(* Numbers that may carry a fraction (PM concentrations, coordinates) are  *)
(* counted in tenths: 12.0 is 120 tenths, 500.4 is 5004 tenths.  A Python  *)
(* value is a record tagged with its Python type, so an int 12 and a       *)
(* float 12.0 are different values, as isinstance sees them.               *)
(* Assertions are enabled (the interpreter is not run with -O).            *)
(***************************************************************************)
EXTENDS Integers, Sequences, FiniteSets, TLC

VARIABLES
    args,          \* the parsed command line: [apikey]
    keyfile,       \* the file at args.keyfile: [exists, content]
    server,        \* what the sensor endpoint will answer to the one GET
    pc,            \* position of main()
    opens,         \* number of open() calls made on the key file
    headers,       \* the X-API-Key header built at line 120
    requests,      \* the X-API-Key header of every GET issued, in order
    r,             \* the response object of requests.get
    data,          \* r.json()
    i,             \* index (1-based) of the next record of data['data']
    readings,      \* the list built by the loop of lines 140-151
    stdout,        \* the characters written to standard output
    exc            \* the uncaught exception that ended the run, or "none"

vars == <<args, keyfile, server, pc, opens, headers, requests, r, data, i,
          readings, stdout, exc>>

(* Bounds of the model *)

MaxRecords == 2
MaxKeyFileLen == 3

(* Python values *)

PyNone == [t |-> "None"]
PyInt(n) == [t |-> "int", n |-> n]
PyFloat(tenths) == [t |-> "float", tenths |-> tenths]
PyStr(s) == [t |-> "str", s |-> s]

\* isinstance(v, int)
IsInt(v) == v.t = "int"

\* A number's magnitude in tenths, for comparisons between int and float.
Tenths(v) == IF v.t = "int" THEN v.n * 10 ELSE v.tenths

(* Module constants, lines 16-17 *)

FIELDS == <<"name", "private", "last_seen", "latitude", "longitude",
            "position_rating", "pm1.0", "pm2.5", "pm10.0">>

ALL_FIELDS == <<"id">> \o FIELDS

(* Key file text: a sequence of characters *)

Chars == {"k", " ", "\n"}
Whitespace == {" ", "\n"}

\* fh.readline(): the text up to and including the first newline, or all
\* of the text when it holds no newline.
RECURSIVE ReadLine(_)
ReadLine(text) ==
    IF text = <<>> THEN <<>>
    ELSE IF Head(text) = "\n" THEN <<"\n">>
    ELSE <<Head(text)>> \o ReadLine(Tail(text))

RECURSIVE LStrip(_)
LStrip(s) ==
    IF s # <<>> /\ Head(s) \in Whitespace THEN LStrip(Tail(s)) ELSE s

RECURSIVE RStrip(_)
RStrip(s) ==
    IF s # <<>> /\ s[Len(s)] \in Whitespace
    THEN RStrip(SubSeq(s, 1, Len(s) - 1))
    ELSE s

\* str.rstrip() in the place of str.strip().
Strip_RightOnly(s) == RStrip(s)

\* str.strip()
Strip(s) == RStrip(LStrip(s))

(* JSON values: the text of a response body and of an output line *)

JNull == [j |-> "null"]
JStr(s) == [j |-> "string", s |-> s]
\* A number literal: its integer part and the digit after the decimal
\* point, NoFrac when the literal has no decimal point ("12" against "12.0").
NoFrac == -1
JNum(whole, frac) == [j |-> "number", whole |-> whole, frac |-> frac]

\* json.loads on a scalar: a literal without a decimal point is an int, one
\* with a decimal point is a float.
LoadsScalar(v) ==
    CASE v.j = "null" -> PyNone
      [] v.j = "string" -> PyStr(v.s)
      [] v.j = "number" ->
            IF v.frac = NoFrac THEN PyInt(v.whole)
            ELSE PyFloat(v.whole * 10 + v.frac)

\* r.json() on a response document: an object whose member "data" is an
\* array of arrays of scalars and whose other members are scalars.
Loads(doc) ==
    [k \in DOMAIN doc |->
        IF k = "data"
        THEN [n \in DOMAIN doc[k] |->
                [m \in DOMAIN doc[k][n] |-> LoadsScalar(doc[k][n][m])]]
        ELSE LoadsScalar(doc[k])]

\* json.dumps on a scalar: None is null, never the string "None" or 0.
DumpsScalar(v) ==
    CASE v.t = "None" -> JNull
      [] v.t = "str" -> JStr(v.s)
      [] v.t = "int" -> JNum(v.n, NoFrac)
      [] v.t = "float" -> JNum(v.tenths \div 10, v.tenths % 10)

\* json.dumps(reading): one JSON object, a member per key of the dict.
Dumps(reading) == [k \in DOMAIN reading |-> DumpsScalar(reading[k])]

(* The EPA PM2.5 index of the aqi package, called at line 93 *)

\* The PM2.5 breakpoints, in tenths of a microgram per cubic metre, and the
\* index range of each segment.
BP == << <<0, 120>>, <<121, 354>>, <<355, 554>>, <<555, 1504>>,
         <<1505, 2504>>, <<2505, 3504>>, <<3505, 5004>> >>
AQI == << <<0, 50>>, <<51, 100>>, <<101, 150>>, <<151, 200>>,
          <<201, 300>>, <<301, 400>>, <<401, 500>> >>

\* The segment whose breakpoints contain cc, 0 when none does.
Segment(cc) ==
    IF \E k \in DOMAIN BP : BP[k][1] <= cc /\ cc <= BP[k][2]
    THEN CHOOSE k \in DOMAIN BP : BP[k][1] <= cc /\ cc <= BP[k][2]
    ELSE 0

\* num / den rounded to the nearest integer, ties to the even one.
RoundHalfEven(num, den) ==
    LET q == num \div den
        rem == num % den
    IN IF 2 * rem > den \/ (2 * rem = den /\ q % 2 = 1) THEN q + 1 ELSE q

\* aqi.to_iaqi(POLLUTANT_PM25, str(c), algo=ALGO_EPA) for a concentration of
\* cc tenths: the linear interpolation inside the segment of cc, rounded
\* half-even to an integer; no segment is an IndexError.
ToIaqi(cc) ==
    LET k == Segment(cc) IN
    IF k = 0 THEN [ok |-> FALSE, exc |-> "IndexError"]
    ELSE [ok |-> TRUE,
          value |-> AQI[k][1] + RoundHalfEven((AQI[k][2] - AQI[k][1]) * (cc - BP[k][1]),
                                              BP[k][2] - BP[k][1])]

(* Lines 79-99: parse_sensor_record *)

\* The limit of the defined index, line 92.
Pm25Limit == 500

Min(a, b) == IF a < b THEN a ELSE b

\* {k: v for k, v in zip(fields, record)}: pairs up to the shorter length,
\* a repeated key keeps its last value.
ZipDict(fields, record) ==
    LET n == Min(Len(fields), Len(record))
        last(k) == CHOOSE m \in 1..n :
                      /\ fields[m] = k
                      /\ \A m2 \in 1..n : fields[m2] = k => m2 <= m
    IN [k \in {fields[m] : m \in 1..n} |-> record[last(k)]]

\* An assignment that only replaces the value of a key already present.
Put_ExistingOnly(d, k, v) == [x \in DOMAIN d |-> IF x = k THEN v ELSE d[x]]

\* d[k] = v
Put(d, k, v) == [x \in DOMAIN d \cup {k} |-> IF x = k THEN v ELSE d[x]]

Raise(kind) == [ok |-> FALSE, exc |-> kind]
Return(stats) == [ok |-> TRUE, stats |-> stats]

\* The check of line 88 letting a longer record through, as zip would.
LengthsMatch_AtLeast(fields, record) == Len(fields) <= Len(record)

\* Line 88.
LengthsMatch(fields, record) == Len(fields) = Len(record)

\* Line 91.
Pm25TypeOk(v) == IsInt(v)

\* Line 92.
Pm25Defined(v) == Tenths(v) <= Pm25Limit * 10

parse_sensor_record(fields, record) ==
    IF ~LengthsMatch(fields, record) THEN Raise("AssertionError")
    ELSE
      LET stats == ZipDict(fields, record) IN
      IF "pm2.5" \notin DOMAIN stats THEN Raise("KeyError")
      ELSE IF ~Pm25TypeOk(stats["pm2.5"]) THEN Raise("AssertionError")
      ELSE IF Pm25Defined(stats["pm2.5"])
           THEN LET iaqi == ToIaqi(Tenths(stats["pm2.5"])) IN
                IF iaqi.ok
                THEN Return(Put(stats, "epa_iaqi_25", PyInt(iaqi.value)))
                ELSE Raise(iaqi.exc)
           ELSE Return(Put(stats, "epa_iaqi_25", PyNone))

(* Lines 102-108: iso_date, for a whole number of seconds since the epoch *)

Pad2(n) == IF n < 10 THEN "0" \o ToString(n) ELSE ToString(n)

\* The proleptic Gregorian date of the day `days` days after 1970-01-01.
CivilFromDays(days) ==
    LET z == days + 719468
        era == z \div 146097
        doe == z - era * 146097
        yoe == (doe - doe \div 1460 + doe \div 36524 - doe \div 146096) \div 365
        doy == doe - (365 * yoe + yoe \div 4 - yoe \div 100)
        mp == (5 * doy + 2) \div 153
        d == doy - (153 * mp + 2) \div 5 + 1
        m == IF mp < 10 THEN mp + 3 ELSE mp - 9
        y == yoe + era * 400 + (IF m <= 2 THEN 1 ELSE 0)
    IN [year |-> y, month |-> m, day |-> d]

iso_date(d) ==
    LET date == CivilFromDays(d.n \div 86400)
        secs == d.n % 86400
    IN PyStr(ToString(date.year) \o "-" \o Pad2(date.month) \o "-" \o Pad2(date.day)
             \o "T" \o Pad2(secs \div 3600) \o ":" \o Pad2((secs % 3600) \div 60)
             \o ":" \o Pad2(secs % 60) \o "+00:00")

(* Standard output: a sequence of characters, the text of one JSON object
   counted as one character that is not a newline *)

Newline == [c |-> "nl"]
Text(obj) == [c |-> "text", json |-> obj]

\* '\n'.join(texts)
RECURSIVE Join(_)
Join(texts) ==
    IF texts = <<>> THEN <<>>
    ELSE IF Len(texts) = 1 THEN <<Text(texts[1])>>
    ELSE <<Text(texts[1]), Newline>> \o Join(Tail(texts))

\* print(s): the string and a newline.
WriteLine(s) == s \o <<Newline>>

(* Lines 111-153: main *)

NoException == [kind |-> "none", at |-> "none"]

Abort(kind, at) ==
    /\ pc' = "aborted"
    /\ exc' = [kind |-> kind, at |-> at]

\* Lines 114-120: the API key and the request headers.
ResolveKey ==
    /\ pc = "start"
    /\ IF args.apikey.t # "None"
       THEN /\ headers' = [present |-> TRUE, key |-> args.apikey.s]
            /\ opens' = opens
            /\ pc' = "request"
            /\ exc' = exc
       ELSE /\ opens' = opens + 1
            /\ IF keyfile.exists
               THEN /\ headers' = [present |-> TRUE,
                                   key |-> Strip(ReadLine(keyfile.content))]
                    /\ pc' = "request"
                    /\ exc' = exc
               ELSE /\ headers' = headers
                    /\ Abort("FileNotFoundError", "open")
    /\ UNCHANGED <<args, keyfile, server, requests, r, data, i, readings, stdout>>

\* Lines 132-136: the one GET.  requests.get raises when no response
\* arrives and returns the response whatever its status.
Request ==
    /\ pc = "request"
    /\ requests' = Append(requests, headers.key)
    /\ IF server.kind = "neterror"
       THEN /\ Abort("ConnectionError", "requests.get")
            /\ r' = r
       ELSE /\ r' = [status |-> server.status, body |-> server.body]
            /\ pc' = "json"
            /\ exc' = exc
    /\ UNCHANGED <<args, keyfile, server, opens, headers, data, i, readings, stdout>>

\* Line 138: data = r.json().
ParseJson ==
    /\ pc = "json"
    /\ IF r.body.json
       THEN /\ data' = Loads(r.body.doc)
            /\ pc' = "for"
            /\ exc' = exc
       ELSE /\ Abort("JSONDecodeError", "r.json")
            /\ data' = data
    /\ UNCHANGED <<args, keyfile, server, opens, headers, requests, r, i, readings, stdout>>

\* Lines 140-141: readings = [] and the evaluation of data['data'].
BeginLoop ==
    /\ pc = "for"
    /\ readings' = <<>>
    /\ IF "data" \in DOMAIN data
       THEN /\ i' = 1
            /\ pc' = "loop"
            /\ exc' = exc
       ELSE /\ Abort("KeyError", "for")
            /\ i' = i
    /\ UNCHANGED <<args, keyfile, server, opens, headers, requests, r, data, stdout>>

PlainKeys == <<"api_version", "location_type", "max_age", "firmware_default_version">>

\* Lines 144-145, one key after the other; the first missing key raises.
RECURSIVE CopyPlainKeys(_, _, _)
CopyPlainKeys(parsed, doc, keys) ==
    IF keys = <<>> THEN Return(parsed)
    ELSE IF Head(keys) \notin DOMAIN doc THEN Raise("KeyError")
    ELSE CopyPlainKeys(Put(parsed, Head(keys), doc[Head(keys)]), doc, Tail(keys))

\* Lines 144-149: the batch metadata and the three timestamps.
Enrich(parsed, doc) ==
    LET copied == CopyPlainKeys(parsed, doc, PlainKeys) IN
    IF ~copied.ok THEN copied
    ELSE IF "time_stamp" \notin DOMAIN doc THEN Raise("KeyError")
    ELSE IF "data_time_stamp" \notin DOMAIN doc THEN Raise("KeyError")
    ELSE Return(Put(Put(Put(copied.stats,
                            "time_stamp", iso_date(doc["time_stamp"])),
                        "data_time_stamp", iso_date(doc["data_time_stamp"])),
                    "last_seen", iso_date(copied.stats["last_seen"])))

\* The loop body with each reading written as soon as it is built.
LoopStdout_PrintsEach(out, reading) == out \o WriteLine(<<Text(Dumps(reading))>>)

\* What one pass of the loop body writes to standard output: nothing, the
\* reading is only appended to the list (line 151).
LoopStdout(out, reading) == out

\* Lines 142-151: one pass of the loop body.
LoopBody ==
    /\ pc = "loop"
    /\ i <= Len(data["data"])
    /\ LET parsed == parse_sensor_record(ALL_FIELDS, data["data"][i]) IN
       IF ~parsed.ok
       THEN /\ Abort(parsed.exc, "parse_sensor_record")
            /\ UNCHANGED <<i, readings, stdout>>
       ELSE LET reading == Enrich(parsed.stats, data) IN
            IF ~reading.ok
            THEN /\ Abort(reading.exc, "enrich")
                 /\ UNCHANGED <<i, readings, stdout>>
            ELSE /\ readings' = Append(readings, reading.stats)
                 /\ stdout' = LoopStdout(stdout, reading.stats)
                 /\ i' = i + 1
                 /\ UNCHANGED <<pc, exc>>
    /\ UNCHANGED <<args, keyfile, server, opens, headers, requests, r, data>>

\* Line 153, after the loop has consumed every record.
EmitReadings ==
    /\ pc = "loop"
    /\ i > Len(data["data"])
    /\ stdout' = stdout \o WriteLine(Join([n \in DOMAIN readings |-> Dumps(readings[n])]))
    /\ pc' = "done"
    /\ UNCHANGED <<args, keyfile, server, opens, headers, requests, r, data, i,
                   readings, exc>>

\* The process's exit status: an uncaught exception exits non-zero.
ExitCode == IF pc = "aborted" THEN 1 ELSE 0

Next ==
    \/ ResolveKey
    \/ Request
    \/ ParseJson
    \/ BeginLoop
    \/ LoopBody
    \/ EmitReadings

(* The environment of a run: command line, key file, endpoint *)

SeqsUpTo(S, n) == UNION {[1..m -> S] : m \in 0..n}

\* One sensor's array in the order of ALL_FIELDS, with the given pm2.5.
SensorRecord(pm) ==
    <<JNum(4711, NoFrac), JStr("porch"), JNum(0, NoFrac), JNum(1699999000, NoFrac),
      JNum(40, 4), JNum(79, 9), JNum(5, NoFrac), JNum(3, 2), pm, JNum(20, 1)>>

\* pm2.5 literals around the breakpoints and the limit, without and with a
\* decimal point.
Pm25Literals ==
    {JNum(w, NoFrac) : w \in {0, 12, 13, 35, 36, 500, 501}}
    \cup {JNum(12, 0), JNum(35, 4), JNum(500, 0), JNum(500, 4), JNum(500, 5), JNum(501, 0)}

\* An array one value short and an array one value long.
ShortRecord == SubSeq(SensorRecord(JNum(12, NoFrac)), 1, Len(FIELDS))
LongRecord == Append(SensorRecord(JNum(12, NoFrac)), JNum(7, NoFrac))

RecordInputs == {SensorRecord(pm) : pm \in Pm25Literals} \cup {ShortRecord, LongRecord}

\* The sensor document of the endpoint.
Document(records) ==
    [k \in {"api_version", "location_type", "max_age", "firmware_default_version",
            "time_stamp", "data_time_stamp", "data"} |->
        CASE k = "api_version" -> JStr("V1.0.11-0.0.42")
          [] k = "location_type" -> JNum(0, NoFrac)
          [] k = "max_age" -> JNum(3600, NoFrac)
          [] k = "firmware_default_version" -> JStr("7.02")
          [] k = "time_stamp" -> JNum(1700000000, NoFrac)
          [] k = "data_time_stamp" -> JNum(1699999980, NoFrac)
          [] k = "data" -> records]

\* The same document without one of the members main copies.
Without(doc, key) == [k \in DOMAIN doc \ {key} |-> doc[k]]

\* The endpoint's error document: no "data" member.
ErrorDocument ==
    [k \in {"api_version", "time_stamp", "error"} |->
        CASE k = "api_version" -> JStr("V1.0.11-0.0.42")
          [] k = "time_stamp" -> JNum(1700000000, NoFrac)
          [] k = "error" -> JStr("ApiKeyInvalidError")]

Bodies(recordSeqs) ==
    {[json |-> TRUE, doc |-> Document(rs)] : rs \in recordSeqs}
    \cup {[json |-> TRUE, doc |-> Without(Document(rs), "firmware_default_version")] :
             rs \in recordSeqs}
    \cup {[json |-> TRUE, doc |-> ErrorDocument], [json |-> FALSE]}

Statuses == {200, 500}

Servers(recordSeqs) ==
    {[kind |-> "neterror"]}
    \cup {[kind |-> "response", status |-> s, body |-> b] :
             s \in Statuses, b \in Bodies(recordSeqs)}

KeyFiles(contents) ==
    {[exists |-> FALSE]} \cup {[exists |-> TRUE, content |-> c] : c \in contents}

InitRun ==
    /\ pc = "start"
    /\ opens = 0
    /\ headers = [present |-> FALSE]
    /\ requests = <<>>
    /\ r = [status |-> 0]
    /\ data = <<>>
    /\ i = 0
    /\ readings = <<>>
    /\ stdout = <<>>
    /\ exc = NoException

\* Any batch of up to MaxRecords records, a few key configurations.
Init ==
    /\ args \in {[apikey |-> PyNone], [apikey |-> PyStr(<<"k">>)]}
    /\ keyfile \in KeyFiles({<<"k", "\n">>})
    /\ server \in Servers(SeqsUpTo(RecordInputs, MaxRecords))
    /\ InitRun

Spec == Init /\ [][Next]_vars

\* Any key file of up to MaxKeyFileLen characters, a few batches.
InitKey ==
    /\ args \in {[apikey |-> PyNone], [apikey |-> PyStr(<<"k">>)],
                 [apikey |-> PyStr(<<" ", "k">>)]}
    /\ keyfile \in KeyFiles(SeqsUpTo(Chars, MaxKeyFileLen))
    /\ server \in Servers(SeqsUpTo({SensorRecord(JNum(12, NoFrac)),
                                    SensorRecord(JNum(12, 0))}, 1))
    /\ InitRun

SpecKey == InitKey /\ [][Next]_vars

(* Vocabulary of the properties *)

\* The records handed to the loop, once data['data'] has been evaluated.
LoopEntered ==
    \/ pc \in {"loop", "done"}
    \/ pc = "aborted" /\ exc.at \in {"parse_sensor_record", "enrich"}

Records == IF LoopEntered THEN data["data"] ELSE <<>>

Pm25Index == CHOOSE m \in DOMAIN ALL_FIELDS : ALL_FIELDS[m] = "pm2.5"

\* The record has the length of ALL_FIELDS and a numeric pm2.5.
WellFormed(record) ==
    /\ Len(record) = Len(ALL_FIELDS)
    /\ record[Pm25Index].t \in {"int", "float"}

Pm25Tenths(record) == Tenths(record[Pm25Index])

\* parse_sensor_record raised on record n.
ParseFailed(n) == pc = "aborted" /\ exc.at = "parse_sensor_record" /\ n = i

\* Record n went through the whole loop body: readings[n] is its reading.
Normalized(n) == LoopEntered /\ n < i

\* parse_sensor_record returned on record n, with epa_iaqi_25 equal to v.
Yields(n, v) ==
    /\ ~ParseFailed(n)
    /\ Normalized(n) => readings[n]["epa_iaqi_25"] = v

\* The lines of an output: the characters before each newline.
RECURSIVE Lines(_, _)
Lines(out, line) ==
    IF out = <<>> THEN (IF line = <<>> THEN <<>> ELSE <<line>>)
    ELSE IF Head(out) = Newline THEN <<line>> \o Lines(Tail(out), <<>>)
    ELSE Lines(Tail(out), Append(line, Head(out)))

TextCount(out) == Cardinality({k \in DOMAIN out : out[k].c = "text"})

ReadingKeys ==
    {ALL_FIELDS[m] : m \in DOMAIN ALL_FIELDS}
    \cup {"epa_iaqi_25", "api_version", "location_type", "max_age",
          "firmware_default_version", "time_stamp", "data_time_stamp"}

\* h is the first line of text without its surrounding whitespace, said
\* without str.strip: h neither starts nor ends with whitespace, and the
\* text before the first newline is whitespace, h, whitespace.
IsStrippedFirstLine(h, text) ==
    LET ends == {k \in DOMAIN text : text[k] = "\n"}
        stop == IF ends = {} THEN Len(text) + 1
                ELSE CHOOSE k \in ends : \A k2 \in ends : k <= k2
        line == SubSeq(text, 1, stop - 1)
    IN /\ h # <<>> => h[1] \notin Whitespace /\ h[Len(h)] \notin Whitespace
       /\ \E a \in 0..Len(line) :
            /\ a + Len(h) <= Len(line)
            /\ SubSeq(line, a + 1, a + Len(h)) = h
            /\ \A k \in 1..a : line[k] \in Whitespace
            /\ \A k \in (a + Len(h) + 1)..Len(line) : line[k] \in Whitespace

(* The claims *)

\* C1: every record of matching length whose PM2.5 is above 500 makes
\* parse_sensor_record return normally, with epa_iaqi_25 None.
C1_NullAbove500 ==
    \A n \in DOMAIN Records :
        (WellFormed(Records[n]) /\ Pm25Tenths(Records[n]) > Pm25Limit * 10)
            => Yields(n, PyNone)

\* C2: every record of matching length whose PM2.5 is a non-negative
\* number, float or int, makes parse_sensor_record return a reading.
C2_AnyNumberParses ==
    \A n \in DOMAIN Records :
        (WellFormed(Records[n]) /\ Pm25Tenths(Records[n]) >= 0) => ~ParseFailed(n)

\* C3: for every PM2.5 from 0 to 500.4 the computed epa_iaqi_25 is an int
\* inside the index range of the concentration's segment, and within a
\* segment a larger concentration never has a smaller index.
C3_IndexInSegmentRange ==
    LET inTable(n) == /\ WellFormed(Records[n])
                      /\ Pm25Tenths(Records[n]) >= BP[1][1]
                      /\ Pm25Tenths(Records[n]) <= BP[Len(BP)][2]
        seg(n) == Segment(Pm25Tenths(Records[n]))
        idx(n) == readings[n]["epa_iaqi_25"]
    IN /\ \A n \in DOMAIN Records :
            inTable(n) =>
                /\ ~ParseFailed(n)
                /\ Normalized(n) =>
                      /\ idx(n).t = "int"
                      /\ AQI[seg(n)][1] <= idx(n).n
                      /\ idx(n).n <= AQI[seg(n)][2]
       /\ \A n1, n2 \in DOMAIN Records :
            (/\ inTable(n1) /\ inTable(n2) /\ Normalized(n1) /\ Normalized(n2)
             /\ seg(n1) = seg(n2)
             /\ Pm25Tenths(Records[n1]) <= Pm25Tenths(Records[n2]))
                => /\ idx(n1).t = "int" /\ idx(n2).t = "int"
                   /\ idx(n1).n <= idx(n2).n

\* C4: PM2.5 of 12.0 gives index 50, 35.4 gives 100, 500.4 gives 500 and
\* 501 gives None.
C4_BoundaryValues ==
    \A n \in DOMAIN Records :
        WellFormed(Records[n]) =>
            /\ Pm25Tenths(Records[n]) = 120 => Yields(n, PyInt(50))
            /\ Pm25Tenths(Records[n]) = 354 => Yields(n, PyInt(100))
            /\ Pm25Tenths(Records[n]) = 5004 => Yields(n, PyInt(500))
            /\ Pm25Tenths(Records[n]) = 5010 => Yields(n, PyNone)

C6_ReadingKeepsRecord ==
    \A n \in DOMAIN readings :
        /\ DOMAIN readings[n] = ReadingKeys
        /\ \A m \in DOMAIN ALL_FIELDS :
              ALL_FIELDS[m] # "last_seen" => readings[n][ALL_FIELDS[m]] = Records[n][m]

C6_Witness ==
    /\ Len(readings) = 2
    /\ readings[1]["pm2.5"] # readings[2]["pm2.5"]
    /\ readings[2]["epa_iaqi_25"] = PyNone

\* C7: output is all or nothing: a run that aborts has written nothing, and
\* once anything is written the run is over with one text per record.
C7_AllOrNothing ==
    /\ pc = "aborted" => stdout = <<>>
    /\ stdout # <<>> => pc = "done" /\ TextCount(stdout) = Len(Records)

C7_Witness ==
    /\ pc = "aborted"
    /\ exc.at = "parse_sensor_record"
    /\ Len(readings) = 1
    /\ i = 2
    /\ stdout = <<>>

\* C8: when all n records normalize, standard output has exactly n lines,
\* line k being the JSON object of record k; no record, no line.
C8_OneLinePerRecord ==
    pc = "done" =>
        /\ Len(Lines(stdout, <<>>)) = Len(Records)
        /\ \A n \in DOMAIN Records :
              Lines(stdout, <<>>)[n] = <<Text(Dumps(readings[n]))>>

\* C9: a response whose status is not 2xx ends the run in an uncaught
\* error, and nothing is written.
C9_Non2xxAborts ==
    (pc \in {"json", "for", "loop", "done", "aborted"} /\ server.kind = "response"
        /\ r.status \notin 200..299)
        => pc # "done" /\ stdout = <<>> /\ (pc = "aborted" => ExitCode # 0)

\* C10: the key is resolved before the request.  With --apikey the header
\* is that key and the key file is never opened; without it the header is
\* the stripped first line of the key file, and a missing key file ends the
\* run before any request.
C10_KeyPrecedence ==
    /\ requests # <<>> => headers.present /\ requests = <<headers.key>>
    /\ (pc # "start" /\ args.apikey.t # "None") =>
          /\ opens = 0
          /\ headers.key = args.apikey.s
          /\ exc.kind # "FileNotFoundError"
    /\ (pc # "start" /\ args.apikey.t = "None" /\ keyfile.exists) =>
          /\ opens = 1
          /\ IsStrippedFirstLine(headers.key, keyfile.content)
    /\ (pc # "start" /\ args.apikey.t = "None" /\ ~keyfile.exists) =>
          /\ pc = "aborted"
          /\ exc = [kind |-> "FileNotFoundError", at |-> "open"]
          /\ requests = <<>>

C10_Witness ==
    /\ args.apikey.t = "None"
    /\ keyfile.exists
    /\ keyfile.content = <<" ", "k", "\n">>
    /\ requests = << <<"k">> >>
====
